---- MODULE Spec2Model ----
(***************************************************************************)
(* Hybrid RSA-OAEP + AES-256-CBC submission envelope:                      *)
(*   organizer_tools/encryption/encrypt_submission.py  (encryptor)         *)
(*   competition/decrypt_submission.py                 (decryptor)         *)
(*                                                                         *)
(* Files and messages are byte sequences (Seq(0..255)) with the sizes of   *)
(* the program.  The two library ciphers are modelled as keyed             *)
(* permutations with the structure the library gives them (PKCS7, CBC      *)
(* chaining, OAEP encoding with its redundancy check); two different RSA   *)
(* keys never agree on the redundancy bytes (ideal-cipher assumption).     *)
(***************************************************************************)
EXTENDS Integers, Sequences, FiniteSets, TLC

(* ------------------------------ bounds --------------------------------- *)
\* plaintexts have 16*b + r bytes, b \in 0..MaxBlocks, r \in {0, 1, 15}
MaxBlocks == 2
\* os.urandom(32) is drawn from seeds 1..NumKeySeeds
NumKeySeeds == 2
\* os.urandom(16) is drawn from seeds 1..NumIvSeeds
NumIvSeeds == 2
\* the OAEP seed drawn inside public_key.encrypt is one of 1..NumOaepSeeds
NumOaepSeeds == 1
\* files received from outside have up to MaxJunk bytes after wrapped_key + iv
MaxJunk == 2
\* encryptor invocations in a row
MaxRuns == 2
\* score() calls in a row on one submission
MaxScoreCalls == 2

(* --------------------------- program constants ------------------------- *)
BlockSize == 16
AesKeyLen == 32
IvLen == 16
LenFieldLen == 4
HashLen == 32
GeneratedKeyBits == 2048

Byte == 0..255

(* ------------------------------- bytes --------------------------------- *)
RECURSIVE XorByte(_, _)
\* a ^ b on two bytes
XorByte(a, b) ==
  IF a = 0 /\ b = 0 THEN 0
  ELSE (((a % 2) + (b % 2)) % 2) + 2 * XorByte(a \div 2, b \div 2)

XorBlock(x, y) == [i \in 1..Len(x) |-> XorByte(x[i], y[i])]

Range(s) == {s[i] : i \in 1..Len(s)}

Fill(n, v) == [i \in 1..n |-> v]

\* n bytes s, s+1, ... (mod 256)
Ramp(n, s) == [i \in 1..n |-> (s + i) % 256]

Drop(s, n) == IF n >= Len(s) THEN <<>> ELSE SubSeq(s, n + 1, Len(s))

\* Python slice data[a:b] with 0 <= a <= b (clamped at the end of data)
Slice(data, a, b) ==
  IF a >= Len(data) THEN <<>>
  ELSE SubSeq(data, a + 1, IF b > Len(data) THEN Len(data) ELSE b)

Min(a, b) == IF a < b THEN a ELSE b

\* Python slice data[a:]
SliceFrom(data, a) == Drop(data, a)

\* faulty variant: byteorder="little"
ToBytesBE_LittleEndian(n) ==
  << n % 256, (n \div 256) % 256, (n \div 65536) % 256, (n \div 16777216) % 256 >>

\* (n).to_bytes(4, byteorder="big")
ToBytesBE(n) ==
  << (n \div 16777216) % 256, (n \div 65536) % 256, (n \div 256) % 256, n % 256 >>

\* int.from_bytes(b, byteorder="big") of a 4-byte string.  Python integers
\* are unbounded; the value is kept as hi * 65536 + lo so that declared
\* lengths up to 2^32 - 1 are exact
FromBytesBE(b) == [hi |-> b[1] * 256 + b[2], lo |-> b[3] * 256 + b[4]]

\* n = hi * 65536 + lo against a length below 65536
WideEq(w, n) == w.hi = 0 /\ w.lo = n

\* min(base + w, limit) for limit below 65536
WideEnd(base, w, limit) ==
  IF w.hi > 0 \/ base + w.lo > limit THEN limit ELSE base + w.lo

(* ------------------------ PKCS7 (block size 128 bits) ------------------ *)
\* faulty variant: an aligned plaintext gets no padding block
Pkcs7Pad_NoBlockWhenAligned(plaintext) ==
  LET r == Len(plaintext) % BlockSize
  IN  IF r = 0 THEN plaintext
      ELSE plaintext \o Fill(BlockSize - r, BlockSize - r)

\* padder.update(plaintext) + padder.finalize()
Pkcs7Pad(plaintext) ==
  LET n == BlockSize - (Len(plaintext) % BlockSize)
  IN  plaintext \o Fill(n, n)

\* faulty variant: only the last byte is looked at
Pkcs7Valid_LastByteOnly(padded) ==
  /\ Len(padded) > 0
  /\ Len(padded) % BlockSize = 0
  /\ padded[Len(padded)] \in 1..BlockSize

\* what unpadder.finalize() accepts: whole blocks, the last byte p in 1..16,
\* the last p bytes all equal to p
Pkcs7Valid(padded) ==
  /\ Len(padded) > 0
  /\ Len(padded) % BlockSize = 0
  /\ LET p == padded[Len(padded)]
     IN  /\ p \in 1..BlockSize
         /\ \A i \in (Len(padded) - p + 1)..Len(padded) : padded[i] = p

Pkcs7Strip(padded) == SubSeq(padded, 1, Len(padded) - padded[Len(padded)])

(* ------------------- AES block cipher (keyed permutation) -------------- *)
\* algorithms.AES(key) accepts 128, 192 and 256 bit keys
AesKeyOk(key) == Len(key) \in {16, 24, AesKeyLen}

KeyByte(key, n) == key[((n - 1) % Len(key)) + 1]

Rot(i) == (i % BlockSize) + 1
RotInv(j) == ((j + BlockSize - 2) % BlockSize) + 1

AesEncryptBlock(key, blk) ==
  [i \in 1..BlockSize |->
     (XorByte(blk[Rot(i)], KeyByte(key, i)) + KeyByte(key, BlockSize + i)) % 256]

\* faulty variant: not the inverse of AesEncryptBlock
AesDecryptBlock_NoRotation(key, blk) ==
  [j \in 1..BlockSize |->
     XorByte((blk[j] + 256 - KeyByte(key, BlockSize + j)) % 256, KeyByte(key, j))]

AesDecryptBlock(key, blk) ==
  [j \in 1..BlockSize |->
     LET i == RotInv(j)
     IN  XorByte((blk[i] + 256 - KeyByte(key, BlockSize + i)) % 256,
                 KeyByte(key, i))]

RECURSIVE CbcEncrypt(_, _, _)
\* encryptor.update(padded) + encryptor.finalize() in CBC mode
CbcEncrypt(key, prev, padded) ==
  IF Len(padded) = 0 THEN <<>>
  ELSE LET c == AesEncryptBlock(key, XorBlock(SubSeq(padded, 1, BlockSize), prev))
       IN  c \o CbcEncrypt(key, c, Drop(padded, BlockSize))

RECURSIVE CbcDecrypt(_, _, _)
\* decryptor.update(ciphertext) + decryptor.finalize() in CBC mode
CbcDecrypt(key, prev, ct) ==
  IF Len(ct) = 0 THEN <<>>
  ELSE LET c == SubSeq(ct, 1, BlockSize)
       IN  XorBlock(AesDecryptBlock(key, c), prev)
             \o CbcDecrypt(key, c, Drop(ct, BlockSize))

\* encrypt_submission.py: encrypt_aes_cbc
encrypt_aes_cbc(plaintext, key, iv) == CbcEncrypt(key, iv, Pkcs7Pad(plaintext))

\* decrypt_submission.py: decrypt_aes_cbc; err names the step that raised
decrypt_aes_cbc(ciphertext, key, iv) ==
  IF ~AesKeyOk(key) \/ Len(iv) # IvLen \/ Len(ciphertext) % BlockSize # 0
  THEN [err |-> "DecryptionError", bytes |-> <<>>]
  ELSE LET padded == CbcDecrypt(key, iv, ciphertext)
       IN  IF Pkcs7Valid(padded)
           THEN [err |-> "none", bytes |-> Pkcs7Strip(padded)]
           ELSE [err |-> "PaddingError", bytes |-> <<>>]

(* ------------------------- RSA keys and PEM text ----------------------- *)
\* a key pair is [kind, bits, id]; the public and the private half of one
\* pair carry the same id
KeyA == [kind |-> "rsa", bits |-> GeneratedKeyBits, id |-> 1]
KeyB == [kind |-> "rsa", bits |-> GeneratedKeyBits, id |-> 2]
KeyC == [kind |-> "rsa", bits |-> 2 * GeneratedKeyBits, id |-> 3]
KeyE == [kind |-> "ec", bits |-> 256, id |-> 4]

\* PEM text: well-formed armor around a key, or text that is no PEM block
Pem(key) == [armor |-> TRUE, key |-> key]
\* no key (a local that is not bound yet, the body of text that is no PEM)
NoKey == [kind |-> "none", bits |-> 0, id |-> 0]
BadPem == [armor |-> FALSE, key |-> NoKey]

\* serialization.load_pem_public_key(data) / load_pem_private_key(pem_bytes,
\* password=None): raises on malformed armor, returns the key of any type
\* and size otherwise
LoadPem(pem) ==
  IF pem.armor THEN [err |-> "none", key |-> pem.key]
  ELSE [err |-> "KeyLoadError", key |-> pem.key]

(* --------------- RSA-OAEP(SHA-256, MGF1-SHA-256, no label) ------------- *)
ModulusLen(key) == key.bits \div 8

\* SHA-256 of the empty label
LHash == Fill(HashLen, 227)

\* the RSA permutation of a key, bytewise; keys with different ids differ
\* in every position
KeyStream(key, i) == (key.id * 37 + i * 11) % 256

\* MGF1 mask of the data block under an OAEP seed
Mask(seed, i) == (seed * 13 + i * 7) % 256

\* EM = 00 || maskedSeed || maskedDB,  DB = lHash || PS || 01 || M
OaepEncode(msg, seed, k) ==
  LET db == LHash \o Fill(k - Len(msg) - 2 * HashLen - 2, 0) \o <<1>> \o msg
  IN  <<0>> \o Ramp(HashLen, seed)
            \o [i \in 1..Len(db) |-> (db[i] + Mask(seed, i)) % 256]

\* public_key.encrypt(msg, OAEP(...)) with the OAEP seed the library draws
RsaOaepEncrypt(pub, msg, seed) ==
  IF pub.kind # "rsa" \/ Len(msg) > ModulusLen(pub) - 2 * HashLen - 2
  THEN [err |-> "EncryptionError", bytes |-> <<>>]
  ELSE LET em == OaepEncode(msg, seed, ModulusLen(pub))
       IN  [err |-> "none",
            bytes |-> [i \in 1..Len(em) |-> (em[i] + KeyStream(pub, i)) % 256]]

\* the OAEP decoding of EM: [ok, msg]
OaepDecode(em) ==
  LET seed == (em[2] + 255) % 256
      mdb  == Drop(em, 1 + HashLen)
      db   == [i \in 1..Len(mdb) |-> (mdb[i] + 256 - Mask(seed, i)) % 256]
      nz   == {i \in (HashLen + 1)..Len(db) : db[i] # 0}
      sep  == CHOOSE i \in nz : \A j \in nz : i <= j
  IN  IF /\ em[1] = 0
         /\ SubSeq(db, 1, HashLen) = LHash
         /\ nz # {}
         /\ db[sep] = 1
      THEN [ok |-> TRUE, msg |-> Drop(db, sep)]
      ELSE [ok |-> FALSE, msg |-> <<>>]

\* private_key.decrypt(enc_key, OAEP(...))
RsaOaepDecryptWith(priv, ct) ==
  IF priv.kind # "rsa" \/ Len(ct) # ModulusLen(priv)
  THEN [err |-> "KeyUnwrapError", bytes |-> <<>>]
  ELSE LET em == [i \in 1..Len(ct) |-> (ct[i] + 256 - KeyStream(priv, i)) % 256]
           d  == OaepDecode(em)
       IN  IF d.ok THEN [err |-> "none", bytes |-> d.msg]
           ELSE [err |-> "KeyUnwrapError", bytes |-> <<>>]

\* faulty variant: an unwrap that any RSA private key can do
RsaOaepDecrypt_AnyKey(priv, ct) ==
  LET ok == {k \in {KeyA, KeyB, KeyC} : RsaOaepDecryptWith(k, ct).err = "none"}
  IN  IF priv.kind = "rsa" /\ ok # {}
      THEN RsaOaepDecryptWith(CHOOSE k \in ok : TRUE, ct)
      ELSE RsaOaepDecryptWith(priv, ct)

RsaOaepDecrypt(priv, ct) == RsaOaepDecryptWith(priv, ct)

(* ------------------------------ framing -------------------------------- *)
\* encrypt_submission.py: the bytes the four f.write calls hand over
Serialize(enc_key, iv, ciphertext) ==
  ToBytesBE(Len(enc_key)) \o enc_key \o iv \o ciphertext

\* faulty variant: len(data) < 4
TooShort_LenFieldOnly(data) == Len(data) < LenFieldLen

\* decrypt_submission.py: len(data) < 4 + 16
TooShort(data) == Len(data) < LenFieldLen + IvLen

\* decrypt_submission.py: key_len, enc_key, iv, ciphertext sliced from data
\* (slices are clamped at len(data), so offsets are too)
ParseEnvelope(data) ==
  LET key_len == FromBytesBE(SubSeq(data, 1, LenFieldLen))
      offset  == WideEnd(LenFieldLen, key_len, Len(data))
  IN  [key_len    |-> key_len,
       enc_key    |-> Slice(data, LenFieldLen, offset),
       iv         |-> Slice(data, offset, offset + IvLen),
       ciphertext |-> SliceFrom(data, Min(offset + IvLen, Len(data)))]

\* faulty variant: the ciphertext is not checked
FormatInvalid_AllowEmptyCiphertext(f) ==
  ~WideEq(f.key_len, Len(f.enc_key)) \/ Len(f.iv) # IvLen

\* faulty variant: only the wrapped key is checked
FormatInvalid_KeyLenOnly(f) == ~WideEq(f.key_len, Len(f.enc_key))

\* decrypt_submission.py: the format check on the sliced fields
FormatInvalid(f) ==
  \/ ~WideEq(f.key_len, Len(f.enc_key))
  \/ Len(f.iv) # IvLen
  \/ Len(f.ciphertext) = 0

(* ------------------------------- inputs -------------------------------- *)
Absent == [exists |-> FALSE, bytes |-> <<>>]
File(b) == [exists |-> TRUE, bytes |-> b]

NoKeyFile == [exists |-> FALSE, pem |-> BadPem]
KeyFile(pem) == [exists |-> TRUE, pem |-> pem]

\* os.environ.get("SUBMISSION_PRIVATE_KEY"): unset, the empty string, or text
EnvUnset == [state |-> "unset", pem |-> BadPem]
EnvEmpty == [state |-> "empty", pem |-> BadPem]
EnvValue(pem) == [state |-> "value", pem |-> pem]

PlainLens == {BlockSize * b + r : b \in 0..MaxBlocks, r \in {0, 1, BlockSize - 1}}

\* predictions.csv contents: a ramp of bytes, and bytes that look like padding
Plaintexts ==
  {Ramp(n, 0) : n \in PlainLens} \cup {Fill(n, BlockSize) : n \in PlainLens}
    \cup {Fill(n, 1) : n \in PlainLens}

SessionKey(s) == Ramp(AesKeyLen, 40 * s)

RandomIv(s) == Ramp(IvLen, 90 * s)

\* (public key file, private key variable) of a run
MatchingKeys ==
  { <<KeyFile(Pem(KeyA)), EnvValue(Pem(KeyA))>>,
    <<KeyFile(Pem(KeyC)), EnvValue(Pem(KeyC))>> }

UnrelatedKeys ==
  { <<KeyFile(Pem(KeyA)), EnvValue(Pem(KeyB))>>,
    <<KeyFile(Pem(KeyA)), EnvValue(Pem(KeyC))>>,
    <<KeyFile(Pem(KeyC)), EnvValue(Pem(KeyA))>>,
    <<KeyFile(Pem(KeyA)), EnvValue(Pem(KeyE))>> }

BrokenKeys ==
  { <<KeyFile(Pem(KeyA)), EnvValue(BadPem)>>,
    <<KeyFile(Pem(KeyA)), EnvUnset>>,
    <<KeyFile(Pem(KeyA)), EnvEmpty>>,
    <<KeyFile(BadPem), EnvValue(Pem(KeyA))>>,
    <<KeyFile(Pem(KeyE)), EnvValue(Pem(KeyA))>>,
    <<NoKeyFile, EnvValue(Pem(KeyA))>> }

EnvChoices ==
  { EnvValue(Pem(KeyA)), EnvValue(Pem(KeyC)), EnvValue(Pem(KeyE)),
    EnvValue(BadPem), EnvUnset, EnvEmpty }

\* length fields of files that arrive from outside: small declared lengths,
\* the RSA output sizes and their neighbours, 2^16, 2^31 and 2^32 - 1
LenFields ==
  {ToBytesBE(n) : n \in {0, 1, 2, 255, 256, 257, 65536}}
    \cup {<<128, 0, 0, 0>>, <<255, 255, 255, 255>>}

RawLens(h) ==
  (0..(LenFieldLen + IvLen + MaxJunk))
    \cup (IF h[1] = 0 /\ h[2] = 0
          THEN LET N == h[3] * 256 + h[4]
               IN  (LenFieldLen + N + IvLen - 2)..(LenFieldLen + N + IvLen + MaxJunk)
          ELSE {})

\* the first L bytes of: length field h, then arbitrary bytes
RawFile(h, L) == Slice(h \o Ramp(L, 3), 0, L)

RawFiles == UNION {{RawFile(h, L) : L \in RawLens(h)} : h \in LenFields}

NoTriple == [used |-> FALSE, enc_key |-> <<>>, iv |-> <<>>, ciphertext |-> <<>>]

\* (wrapped_key, iv, ciphertext) a third party lays out as the encryptor does
Triples ==
  { [used |-> TRUE, enc_key |-> Ramp(n, 7), iv |-> Ramp(IvLen, 100),
     ciphertext |-> Ramp(m, 200)] :
    n \in {0, 1, 255, 256, 257}, m \in (1..(MaxJunk + 1)) \cup {BlockSize} }

\* padded plaintexts as they come out of the CBC decryption of an envelope
\* made outside: valid paddings of 1, 2 and 16 bytes, and invalid ones
PaddedBlobs ==
  { Fill(BlockSize, BlockSize),
    Ramp(BlockSize - 1, 0) \o <<1>>,
    Ramp(BlockSize - 2, 0) \o <<2, 2>>,
    Ramp(BlockSize, 0) \o Fill(BlockSize, BlockSize),
    Ramp(BlockSize - 2, 0) \o <<3, 2>>,
    Ramp(BlockSize - 3, 0) \o <<3, 9, 3>>,
    Ramp(BlockSize - 1, 0) \o <<0>>,
    Fill(BlockSize, BlockSize + 1),
    Fill(BlockSize - 1, BlockSize) \o <<255>>,
    Ramp(BlockSize, 0) \o Fill(BlockSize - 1, 7) \o <<BlockSize>> }

(* -------------------------------- state -------------------------------- *)
VARIABLES
  predFile,    \* predictions.csv
  pubKeyFile,  \* competition_public_key.pem
  encFile,     \* predictions.enc: the encryptor's output, the decryptor's input
  outFile,     \* the decryptor's --output
  envKey,      \* SUBMISSION_PRIVATE_KEY in the decryptor's environment
  forged,      \* the triple behind a predictions.enc that came from outside
  enc,         \* locals of encrypt_submission.main
  dec,         \* locals of decrypt_submission.main
  encDir,      \* the parent directory of the encryptor's output path
  outDir,      \* the parent directory of the decryptor's --output
  urandomOut,  \* the byte strings os.urandom has returned
  sessions,    \* every encrypt_aes_cbc call so far: [key, iv, plaintext]
  kg,          \* locals of generate_keys.main
  privKeyFile, \* organizer_tools/encryption/private_key.pem
  keyDir,      \* organizer_tools/encryption, the directory of generate_keys.py
  compDir,     \* the competition directory of the repository
  sub,         \* the submission directory given to validator and scorer
  val,         \* the SubmissionValidator object and its position in validate
  leaderboard, \* leaderboard/leaderboard.csv
  groundTruth, \* the ground truth file given to the scorer
  resultsFile, \* results.json in the submission directory
  sc           \* the SubmissionScorer run: locals of score and of __main__

KgVars == <<kg, privKeyFile, keyDir, compDir>>
SubVars == <<sub, val, leaderboard, groundTruth, resultsFile, sc>>

vars == <<predFile, pubKeyFile, encFile, outFile, envKey, forged, enc, dec,
          encDir, outDir, urandomOut, sessions, KgVars, SubVars>>

EncInit ==
  [pc |-> "start", err |-> "none", plaintext |-> <<>>, aes_key |-> <<>>,
   iv |-> <<>>, ciphertext |-> <<>>, public_key |-> NoKey, enc_key |-> <<>>,
   buf |-> <<>>, log |-> <<>>, stdout |-> <<>>]

\* exit is the process exit status, -1 while the process runs
DecInit ==
  [pc |-> "start", err |-> "none", private_key |-> NoKey, data |-> <<>>,
   fields |-> ParseEnvelope(<<0, 0, 0, 0>>), aes_key |-> <<>>,
   plaintext |-> <<>>, log |-> <<>>, exit |-> -1]

\* what an earlier run left at the decryptor's --output
StaleOutput == Ramp(3, 60)

\* nothing at the output path yet, its directory not made
FreshOutput == outFile = Absent /\ outDir = "absent"

EncIdleWorld == encDir = "present" /\ urandomOut = {} /\ sessions = <<>>

KgInit ==
  [pc |-> "start", err |-> "none", key |-> NoKey, log |-> <<>>, stdout |-> <<>>]

\* the key generator has not run
KgIdle ==
  /\ kg = KgInit /\ privKeyFile = NoKeyFile
  /\ keyDir = "present" /\ compDir = "present"

\* a CSV file as pandas sees it: whether read_csv parses it, its header,
\* its rows of (source, target), whether each column casts to int
NoCsv ==
  [exists |-> FALSE, readable |-> FALSE, columns |-> {}, rows |-> <<>>,
   source_int |-> TRUE, target_int |-> TRUE]

\* metadata.json: whether json.load parses it, and the object it holds
NoMeta == [exists |-> FALSE, size |-> 0, json |-> "invalid", obj |-> <<>>]

NoSubmission ==
  [kind |-> "missing", envelope |-> Absent, predictions |-> NoCsv,
   metadata |-> NoMeta]

\* leaderboard.csv: the header's columns and the cells of the team column
NoLeaderboard ==
  [exists |-> FALSE, empty |-> TRUE, columns |-> {}, team |-> <<>>]

ValInit ==
  [pc |-> "start", errors |-> <<>>, warnings |-> <<>>, is_valid |-> FALSE,
   reads |-> {}, returned |-> FALSE]

NoMetrics == [true_positives |-> -1, false_positives |-> -1, false_negatives |-> -1]
NoResults == [made |-> FALSE, metrics |-> NoMetrics, metadata |-> <<>>]

ScInit ==
  [pc |-> "start", err |-> "none", metadata |-> <<>>, team_name |-> <<>>,
   predictions |-> NoCsv, ground_truth |-> NoCsv, metrics |-> NoMetrics,
   results |-> NoResults, log |-> <<>>, exit |-> -1, calls |-> 1]

\* validator and scorer have not run
SubIdle ==
  /\ sub = NoSubmission /\ val = ValInit
  /\ leaderboard = NoLeaderboard /\ groundTruth = NoCsv
  /\ resultsFile = [exists |-> FALSE, results |-> NoResults]
  /\ sc = ScInit

\* encryptor and decryptor have not run and have nothing to run on
CryptoIdle ==
  /\ predFile = Absent /\ encFile = Absent /\ forged = NoTriple
  /\ envKey = EnvUnset
  /\ outFile = Absent /\ outDir = "absent"
  /\ EncIdleWorld
  /\ enc = EncInit /\ dec = DecInit

\* a participant encrypts, the organizers' CI decrypts
InitPipeline ==
  /\ predFile \in {File(p) : p \in Plaintexts}
  /\ \E ks \in MatchingKeys \cup UnrelatedKeys : pubKeyFile = ks[1] /\ envKey = ks[2]
  /\ encFile = Absent
  /\ forged = NoTriple
  /\ FreshOutput

\* the same with key material that cannot be used
InitBrokenKeys ==
  /\ predFile \in {File(Ramp(BlockSize + 1, 0)), File(<<>>)}
  /\ \E ks \in BrokenKeys : pubKeyFile = ks[1] /\ envKey = ks[2]
  /\ encFile = Absent
  /\ forged = NoTriple
  /\ outFile = File(StaleOutput) /\ outDir = "present"

\* predictions.enc arrives from outside (or not at all); nothing to encrypt
InitReceived ==
  /\ predFile = Absent
  /\ pubKeyFile = KeyFile(Pem(KeyA))
  /\ \/ /\ encFile \in {File(b) : b \in RawFiles}
        /\ forged = NoTriple
        /\ envKey = EnvValue(Pem(KeyA))
     \/ /\ forged \in Triples
        /\ encFile = File(Serialize(forged.enc_key, forged.iv, forged.ciphertext))
        /\ envKey = EnvValue(Pem(KeyA))
     \/ /\ encFile \in {Absent, File(<<>>), File(RawFile(ToBytesBE(256), 19)),
                        File(RawFile(ToBytesBE(1), 22)), File(RawFile(ToBytesBE(256), 292))}
        /\ forged = NoTriple
        /\ envKey \in EnvChoices
     \/ /\ \E raw \in PaddedBlobs :
             encFile = File(Serialize(
                         RsaOaepEncrypt(KeyA, SessionKey(1), 1).bytes,
                         RandomIv(1),
                         CbcEncrypt(SessionKey(1), RandomIv(1), raw)))
        /\ forged = NoTriple
        /\ envKey = EnvValue(Pem(KeyA))
  /\ outFile = File(StaleOutput) /\ outDir = "present"

\* the output locations in every state they can be in
InitOutputs ==
  /\ predFile \in {File(Ramp(BlockSize + 1, 0)), File(<<>>)}
  /\ \E ks \in MatchingKeys \cup {<<KeyFile(Pem(KeyA)), EnvValue(Pem(KeyB))>>} :
       pubKeyFile = ks[1] /\ envKey = ks[2]
  /\ encFile = Absent
  /\ forged = NoTriple
  /\ outFile \in {Absent, File(StaleOutput)}
  /\ outDir \in {"present", "unwritable"} \/ FreshOutput

Init ==
  /\ \/ (InitPipeline \/ InitBrokenKeys \/ InitReceived) /\ encDir = "present"
     \/ InitOutputs /\ encDir \in {"present", "absent"}
  /\ urandomOut = {} /\ sessions = <<>>
  /\ enc = EncInit
  /\ dec = DecInit
  /\ KgIdle /\ SubIdle

(* ------------------- encrypt_submission.py: main ----------------------- *)
EncFail(e) == enc' = [enc EXCEPT !.pc = "failed", !.err = e]

EncFrame ==
  UNCHANGED <<predFile, pubKeyFile, outFile, envKey, forged, dec, outDir,
              KgVars, SubVars>>

EncQuiet == UNCHANGED <<encFile, encDir, urandomOut, sessions>>

\* the two exists() checks
EncCheckInputs ==
  /\ enc.pc = "start"
  /\ IF ~predFile.exists \/ ~pubKeyFile.exists
     THEN EncFail("FileNotFound")
     ELSE enc' = [enc EXCEPT !.pc = "read"]
  /\ EncQuiet /\ EncFrame

\* plaintext = predictions_path.read_bytes()
EncReadPlaintext ==
  /\ enc.pc = "read"
  /\ enc' = [enc EXCEPT !.pc = "draw", !.plaintext = predFile.bytes]
  /\ EncQuiet /\ EncFrame

\* aes_key = os.urandom(32); iv = os.urandom(16).  The operating system's
\* source is taken to be sound: no call returns what a call returned before.
EncDrawKey ==
  /\ enc.pc = "draw"
  /\ \E ks \in 1..NumKeySeeds, is \in 1..NumIvSeeds :
       /\ SessionKey(ks) \notin urandomOut
       /\ RandomIv(is) \notin urandomOut
       /\ urandomOut' = urandomOut \cup {SessionKey(ks), RandomIv(is)}
       /\ enc' = [enc EXCEPT !.pc = "aes", !.aes_key = SessionKey(ks),
                             !.iv = RandomIv(is)]
  /\ UNCHANGED <<encFile, encDir, sessions>> /\ EncFrame

\* ciphertext = encrypt_aes_cbc(plaintext, aes_key, iv)
EncAesEncrypt ==
  /\ enc.pc = "aes"
  /\ enc' = [enc EXCEPT !.pc = "load", !.log = Append(@, "aes"),
               !.ciphertext = encrypt_aes_cbc(enc.plaintext, enc.aes_key, enc.iv)]
  /\ sessions' = Append(sessions, [key |-> enc.aes_key, iv |-> enc.iv,
                                   plaintext |-> enc.plaintext])
  /\ UNCHANGED <<encFile, encDir, urandomOut>> /\ EncFrame

\* public_key = load_public_key(public_key_path)
EncLoadKey ==
  /\ enc.pc = "load"
  /\ LET r == LoadPem(pubKeyFile.pem)
     IN  IF r.err # "none" THEN EncFail(r.err)
         ELSE enc' = [enc EXCEPT !.pc = "wrap", !.public_key = r.key]
  /\ EncQuiet /\ EncFrame

\* enc_key = public_key.encrypt(aes_key, OAEP(...))
EncWrapKey ==
  /\ enc.pc = "wrap"
  /\ \E seed \in 1..NumOaepSeeds :
       LET r == RsaOaepEncrypt(enc.public_key, enc.aes_key, seed)
       IN  IF r.err # "none"
           THEN enc' = [enc EXCEPT !.pc = "failed", !.err = r.err,
                                   !.log = Append(@, "wrap")]
           ELSE enc' = [enc EXCEPT !.pc = "open", !.enc_key = r.bytes,
                                   !.log = Append(@, "wrap")]
  /\ EncQuiet /\ EncFrame

\* open(output_path, "wb"): the file exists and is empty; open() raises
\* when the directory of the path does not exist (main never makes it)
EncOpen ==
  /\ enc.pc = "open"
  /\ IF encDir = "absent"
     THEN /\ enc' = [enc EXCEPT !.pc = "failed", !.err = "IOError",
                                !.log = Append(@, "open")]
          /\ UNCHANGED encFile
     ELSE /\ encFile' = File(<<>>)
          /\ enc' = [enc EXCEPT !.pc = "w1", !.buf = <<>>,
                                !.log = Append(@, "open")]
  /\ UNCHANGED <<encDir, urandomOut, sessions>> /\ EncFrame

EncWrite(from, part, to) ==
  /\ enc.pc = from
  /\ enc' = [enc EXCEPT !.pc = to, !.buf = @ \o part]
  /\ EncQuiet /\ EncFrame

\* f.write(key_len_bytes)
EncWriteLen == EncWrite("w1", ToBytesBE(Len(enc.enc_key)), "w2")
\* faulty variant: the session key itself is written, not the wrapped key
EncWriteKey_InClear == EncWrite("w2", enc.aes_key, "w3")

\* f.write(enc_key)
EncWriteKey == EncWrite("w2", enc.enc_key, "w3")
\* faulty variant: only 12 bytes of the IV reach the file
EncWriteIv_Truncated == EncWrite("w3", SubSeq(enc.iv, 1, IvLen - 4), "w4")

\* f.write(iv)
EncWriteIv == EncWrite("w3", enc.iv, "w4")
\* f.write(ciphertext)
EncWriteCiphertext == EncWrite("w4", enc.ciphertext, "close")

\* what the two print calls after the with block write to stdout: fixed
\* text and the output path
EncMessages ==
  << [text |-> "written to", bytes |-> <<>>],
     [text |-> "keep predictions.csv private", bytes |-> <<>>] >>

\* leaving the with block: everything written is in the file; then the
\* two print calls
EncClose ==
  /\ enc.pc = "close"
  /\ encFile' = File(enc.buf)
  /\ enc' = [enc EXCEPT !.pc = "done", !.stdout = EncMessages]
  /\ UNCHANGED <<encDir, urandomOut, sessions>> /\ EncFrame

EncStep ==
  \/ EncCheckInputs \/ EncReadPlaintext \/ EncDrawKey \/ EncAesEncrypt
  \/ EncLoadKey \/ EncWrapKey \/ EncOpen
  \/ EncWriteLen \/ EncWriteKey \/ EncWriteIv \/ EncWriteCiphertext \/ EncClose

EncTerminated == enc.pc \in {"done", "failed", "killed"}

(* ------------------- decrypt_submission.py: main ----------------------- *)
\* faulty variant: the step is tried again from the start
DecFail_Retry(e, step) ==
  dec' = [dec EXCEPT !.pc = "start", !.err = e, !.log = Append(@, step)]

\* an exception leaves main: the run ends with a non-zero exit status
DecFail(e, step) ==
  dec' = [dec EXCEPT !.pc = "failed", !.err = e, !.log = Append(@, step),
                     !.exit = 1]

DecFrame ==
  UNCHANGED <<predFile, pubKeyFile, encFile, envKey, forged, enc,
              encDir, urandomOut, sessions, KgVars, SubVars>>

DecQuiet == UNCHANGED <<outFile, outDir>>

\* if not enc_path.exists(): raise FileNotFoundError
DecCheckInput ==
  /\ dec.pc = "start"
  /\ IF ~encFile.exists THEN DecFail("FileNotFound", "exists")
     ELSE dec' = [dec EXCEPT !.pc = "loadkey", !.log = Append(@, "exists")]
  /\ DecQuiet /\ DecFrame

\* private_key = load_private_key_from_env()
DecLoadKey ==
  /\ dec.pc = "loadkey"
  /\ IF envKey.state # "value" THEN DecFail("ConfigError", "getenv")
     ELSE LET r == LoadPem(envKey.pem)
          IN  IF r.err # "none" THEN DecFail(r.err, "getenv")
              ELSE dec' = [dec EXCEPT !.pc = "read", !.private_key = r.key,
                                      !.log = Append(@, "getenv")]
  /\ DecQuiet /\ DecFrame

\* faulty variant: the output file is opened for writing before the
\* envelope is looked at
DecRead_OpenOutputEarly ==
  /\ dec.pc = "read"
  /\ dec' = [dec EXCEPT !.pc = "checklen", !.data = encFile.bytes,
                        !.log = Append(@, "read")]
  /\ outFile' = File(<<>>)
  /\ UNCHANGED outDir /\ DecFrame

\* data = enc_path.read_bytes()
DecRead ==
  /\ dec.pc = "read"
  /\ dec' = [dec EXCEPT !.pc = "checklen", !.data = encFile.bytes,
                        !.log = Append(@, "read")]
  /\ DecQuiet /\ DecFrame

\* if len(data) < 4 + 16: raise ValueError
DecCheckLen ==
  /\ dec.pc = "checklen"
  /\ IF TooShort(dec.data) THEN DecFail("MalformedEnvelope", "checklen")
     ELSE dec' = [dec EXCEPT !.pc = "parse", !.log = Append(@, "checklen")]
  /\ DecQuiet /\ DecFrame

\* key_len = int.from_bytes(data[:4]) ... the format check
DecParse ==
  /\ dec.pc = "parse"
  /\ LET f == ParseEnvelope(dec.data)
     IN  IF FormatInvalid(f)
         THEN dec' = [dec EXCEPT !.pc = "failed", !.err = "MalformedEnvelope",
                                 !.fields = f, !.log = Append(@, "parse"),
                                 !.exit = 1]
         ELSE dec' = [dec EXCEPT !.pc = "unwrap", !.fields = f,
                                 !.log = Append(@, "parse")]
  /\ DecQuiet /\ DecFrame

\* aes_key = private_key.decrypt(enc_key, OAEP(...))
DecUnwrap ==
  /\ dec.pc = "unwrap"
  /\ LET r == RsaOaepDecrypt(dec.private_key, dec.fields.enc_key)
     IN  IF r.err # "none" THEN DecFail(r.err, "unwrap")
         ELSE dec' = [dec EXCEPT !.pc = "aes", !.aes_key = r.bytes,
                                 !.log = Append(@, "unwrap")]
  /\ DecQuiet /\ DecFrame

\* plaintext = decrypt_aes_cbc(ciphertext, aes_key, iv)
DecAesDecrypt ==
  /\ dec.pc = "aes"
  /\ LET r == decrypt_aes_cbc(dec.fields.ciphertext, dec.aes_key, dec.fields.iv)
     IN  IF r.err # "none" THEN DecFail(r.err, "aes")
         ELSE dec' = [dec EXCEPT !.pc = "write", !.plaintext = r.bytes,
                                 !.log = Append(@, "aes")]
  /\ DecQuiet /\ DecFrame

\* out_path.parent.mkdir(parents=True, exist_ok=True);
\* out_path.write_bytes(plaintext); print(...).  In a place that cannot be
\* written the mkdir or the write raises and nothing changes.
DecWrite ==
  /\ dec.pc = "write"
  /\ IF outDir = "unwritable"
     THEN /\ dec' = [dec EXCEPT !.pc = "failed", !.err = "IOError",
                                !.log = @ \o <<"mkdir", "write">>, !.exit = 1]
          /\ DecQuiet
     ELSE /\ outDir' = "present"
          /\ outFile' = File(dec.plaintext)
          /\ dec' = [dec EXCEPT !.pc = "done", !.exit = 0,
                                !.log = @ \o <<"mkdir", "write">>]
  /\ DecFrame

DecAfterStart ==
  \/ DecLoadKey \/ DecRead \/ DecCheckLen \/ DecParse
  \/ DecUnwrap \/ DecAesDecrypt \/ DecWrite

DecTerminated == dec.pc \in {"done", "failed"}

(* ---------------------- generate_keys.py: main ------------------------- *)
\* the pairs rsa.generate_private_key(65537, 2048) returns in the runs
\* looked at, and the pair of an earlier run whose files may be on disk
KeyD == [kind |-> "rsa", bits |-> GeneratedKeyBits, id |-> 5]
NewKeys == {KeyA, KeyD}
OldKey == KeyB

\* the private exponent of a pair, which the public half does not hold
PrivateExponent(key) == 1000 + key.id

\* private_key.private_bytes(PEM, PKCS8, NoEncryption())
PrivatePem(key) == [armor |-> TRUE, key |-> key, d |-> PrivateExponent(key)]

\* a file just opened with mode "wb": it exists and holds nothing
EmptyKeyFile == KeyFile(BadPem)

\* the lines main prints: fixed text and the two paths
KgMessages ==
  << [text |-> "RSA-2048 key pair generated.", pem |-> BadPem],
     [text |-> "Private key (KEEP SECRET, DO NOT COMMIT): private_key.pem",
      pem |-> BadPem],
     [text |-> "Public key (commit this file): competition_public_key.pem",
      pem |-> BadPem],
     [text |-> "Next steps for organizers", pem |-> BadPem] >>

KgFail(step) ==
  kg' = [kg EXCEPT !.pc = "failed", !.err = "IOError", !.log = Append(@, step)]

KgStep(step, to) == kg' = [kg EXCEPT !.pc = to, !.log = Append(@, step)]

KgFrame ==
  UNCHANGED <<predFile, encFile, outFile, envKey, forged, enc, dec,
              encDir, outDir, urandomOut, sessions, SubVars>>

\* enc_dir.mkdir(parents=True, exist_ok=True): the script's own directory
KgMkdirEnc ==
  /\ kg.pc = "start"
  /\ KgStep("mkdir private", "generate")
  /\ UNCHANGED <<pubKeyFile, privKeyFile, keyDir, compDir>> /\ KgFrame

\* private_key = rsa.generate_private_key(...); private_pem = ...
KgGenerate ==
  /\ kg.pc = "generate"
  /\ \E key \in NewKeys :
       kg' = [kg EXCEPT !.pc = "privopen", !.key = key,
                        !.log = Append(@, "generate")]
  /\ UNCHANGED <<pubKeyFile, privKeyFile, keyDir, compDir>> /\ KgFrame

\* open(private_key_path, "wb")
KgOpenPrivate ==
  /\ kg.pc = "privopen"
  /\ IF keyDir = "unwritable"
     THEN KgFail("open private") /\ UNCHANGED privKeyFile
     ELSE KgStep("open private", "privwrite") /\ privKeyFile' = EmptyKeyFile
  /\ UNCHANGED <<pubKeyFile, keyDir, compDir>> /\ KgFrame

\* f.write(private_pem) and leaving the with block; the write or the flush
\* can fail with an I/O error
KgWritePrivate ==
  /\ kg.pc = "privwrite"
  /\ \/ KgStep("write private", "pubmkdir")
          /\ privKeyFile' = KeyFile(PrivatePem(kg.key))
     \/ KgFail("write private") /\ UNCHANGED privKeyFile
  /\ UNCHANGED <<pubKeyFile, keyDir, compDir>> /\ KgFrame

\* competition_dir.mkdir(parents=True, exist_ok=True)
KgMkdirPub ==
  /\ kg.pc = "pubmkdir"
  /\ IF compDir = "blocked"
     THEN KgFail("mkdir public") /\ UNCHANGED compDir
     ELSE /\ KgStep("mkdir public", "pubopen")
          /\ compDir' = IF compDir = "absent" THEN "present" ELSE compDir
  /\ UNCHANGED <<pubKeyFile, privKeyFile, keyDir>> /\ KgFrame

\* open(public_key_path, "wb")
KgOpenPublic ==
  /\ kg.pc = "pubopen"
  /\ IF compDir = "unwritable"
     THEN KgFail("open public") /\ UNCHANGED pubKeyFile
     ELSE KgStep("open public", "pubwrite") /\ pubKeyFile' = EmptyKeyFile
  /\ UNCHANGED <<privKeyFile, keyDir, compDir>> /\ KgFrame

\* f.write(public_pem) and leaving the with block
KgWritePublic ==
  /\ kg.pc = "pubwrite"
  /\ \/ KgStep("write public", "print") /\ pubKeyFile' = KeyFile(Pem(kg.key))
     \/ KgFail("write public") /\ UNCHANGED pubKeyFile
  /\ UNCHANGED <<privKeyFile, keyDir, compDir>> /\ KgFrame

\* faulty variant: the private key is shown on the terminal for copying
KgPrint_EchoesKey ==
  /\ kg.pc = "print"
  /\ kg' = [kg EXCEPT !.pc = "done", !.log = Append(@, "print"),
              !.stdout = Append(KgMessages,
                                [text |-> "copy this", pem |-> PrivatePem(kg.key)])]
  /\ UNCHANGED <<pubKeyFile, privKeyFile, keyDir, compDir>> /\ KgFrame

\* the print calls at the end of main
KgPrint ==
  /\ kg.pc = "print"
  /\ kg' = [kg EXCEPT !.pc = "done", !.log = Append(@, "print"),
                      !.stdout = KgMessages]
  /\ UNCHANGED <<pubKeyFile, privKeyFile, keyDir, compDir>> /\ KgFrame

InitKeygen ==
  /\ CryptoIdle /\ SubIdle
  /\ kg = KgInit
  /\ privKeyFile \in {NoKeyFile, KeyFile(PrivatePem(OldKey))}
  /\ pubKeyFile \in {NoKeyFile, KeyFile(Pem(OldKey))}
  /\ keyDir \in {"present", "unwritable"}
  /\ compDir \in {"absent", "present", "unwritable", "blocked"}

NextKeygen ==
  \/ KgMkdirEnc \/ KgGenerate \/ KgOpenPrivate \/ KgWritePrivate
  \/ KgMkdirPub \/ KgOpenPublic \/ KgWritePublic \/ KgPrint

SpecKeygen == InitKeygen /\ [][NextKeygen]_vars

(* ------------- validate_submission.py: SubmissionValidator ------------- *)
Csv(columns, rows, source_int, target_int) ==
  [exists |-> TRUE, readable |-> TRUE, columns |-> columns, rows |-> rows,
   source_int |-> source_int, target_int |-> target_int]

\* a file pd.read_csv raises on
UnreadableCsv == [NoCsv EXCEPT !.exists = TRUE]

\* metadata.json holding the object obj
Meta(obj) == [exists |-> TRUE, size |-> 1 + Cardinality(DOMAIN obj),
              json |-> "ok", obj |-> obj]
EmptyMetaFile == [NoMeta EXCEPT !.exists = TRUE]
InvalidJson == [NoMeta EXCEPT !.exists = TRUE, !.size = 1]

\* team names as character codes: "Ab", "ab", "AB", "Cd", "NA"
TeamAb == <<65, 98>>
TeamAbLower == <<97, 98>>
TeamAbUpper == <<65, 66>>
TeamCd == <<67, 100>>
TeamNA == <<78, 65>>

MetaOf(team, method, description) ==
  Meta([f \in {"team_name", "method", "description"} |->
          IF f = "team_name" THEN [s |-> team]
          ELSE IF f = "method" THEN [s |-> method] ELSE [s |-> description]])

REQUIRED_PRED_COLUMNS == <<"source", "target">>
REQUIRED_META_FIELDS == <<"team_name", "method", "description">>
VALID_METHODS == {"human", "llm", "hybrid"}

\* [col for col in required if col not in present]
MissingOf(required, present) ==
  SelectSeq(required, LAMBDA c : c \notin present)

\* df.duplicated(subset=['source', 'target']).sum() > 0
HasDuplicates(rows) ==
  \E i, j \in 1..Len(rows) : i < j /\ rows[i] = rows[j]

\* description.strip() is empty
Blank(text) == text \in {"", " "}

\* _validate_predictions: the errors and warnings it appends
validate_predictions(csv) ==
  IF ~csv.readable
  THEN [errors |-> <<"Failed to read predictions.csv">>, warnings |-> <<>>]
  ELSE [errors |->
          (IF MissingOf(REQUIRED_PRED_COLUMNS, csv.columns) # <<>>
           THEN <<"predictions.csv missing required columns">> ELSE <<>>)
          \o (IF "source" \in csv.columns /\ ~csv.source_int
              THEN <<"'source' column contains non-integer values">> ELSE <<>>)
          \o (IF "target" \in csv.columns /\ ~csv.target_int
              THEN <<"'target' column contains non-integer values">> ELSE <<>>),
        warnings |->
          (IF Len(csv.rows) = 0 THEN <<"predictions.csv is empty">> ELSE <<>>)
          \o (IF {"source", "target"} \subseteq csv.columns
                   /\ HasDuplicates(csv.rows)
              THEN <<"predictions.csv contains duplicate edges">> ELSE <<>>)]

\* _validate_metadata: the errors and warnings it appends
validate_metadata(meta) ==
  IF meta.json # "ok"
  THEN [errors |-> <<"Invalid JSON in metadata.json">>, warnings |-> <<>>]
  ELSE [errors |->
          (IF MissingOf(REQUIRED_META_FIELDS, DOMAIN meta.obj) # <<>>
           THEN <<"metadata.json missing required fields">> ELSE <<>>)
          \o (IF "method" \in DOMAIN meta.obj
                   /\ meta.obj["method"].s \notin VALID_METHODS
              THEN <<"metadata.json 'method' must be one of">> ELSE <<>>),
        warnings |->
          IF "description" \in DOMAIN meta.obj
               /\ Blank(meta.obj["description"].s)
          THEN <<"metadata.json 'description' field is empty">> ELSE <<>>]

ValFrame ==
  UNCHANGED <<predFile, pubKeyFile, encFile, outFile, envKey, forged, enc, dec,
              encDir, outDir, urandomOut, sessions, KgVars,
              sub, leaderboard, groundTruth, resultsFile, sc>>

\* validate: the path exists and is a directory, or an early return
ValCheckPath ==
  /\ val.pc = "start"
  /\ val' = IF sub.kind = "missing"
            THEN [val EXCEPT !.pc = "done", !.returned = TRUE,
                             !.errors = <<"Submission path does not exist">>]
            ELSE IF sub.kind # "dir"
            THEN [val EXCEPT !.pc = "done", !.returned = TRUE,
                             !.errors = <<"Submission path is not a directory">>]
            ELSE [val EXCEPT !.pc = "predictions"]
  /\ ValFrame

\* validate: predictions.csv is there, and then _validate_predictions
ValCheckPredictions ==
  /\ val.pc = "predictions"
  /\ val' = IF ~sub.predictions.exists
            THEN [val EXCEPT !.pc = "metadata",
                    !.errors = Append(@, "Missing required file: predictions.csv")]
            ELSE LET r == validate_predictions(sub.predictions)
                 IN  [val EXCEPT !.pc = "metadata",
                        !.errors = @ \o r.errors, !.warnings = @ \o r.warnings,
                        !.reads = @ \cup {"predictions.csv"}]
  /\ ValFrame

\* validate: metadata.json is there, and then _validate_metadata
ValCheckMetadata ==
  /\ val.pc = "metadata"
  /\ val' = IF ~sub.metadata.exists
            THEN [val EXCEPT !.pc = "return",
                    !.errors = Append(@, "Missing required file: metadata.json")]
            ELSE LET r == validate_metadata(sub.metadata)
                 IN  [val EXCEPT !.pc = "return",
                        !.errors = @ \o r.errors, !.warnings = @ \o r.warnings,
                        !.reads = @ \cup {"metadata.json"}]
  /\ ValFrame

\* is_valid = len(self.errors) == 0; return
ValReturn ==
  /\ val.pc = "return"
  /\ val' = [val EXCEPT !.pc = "done", !.returned = TRUE,
                        !.is_valid = (Len(val.errors) = 0)]
  /\ ValFrame

EdgesA == << <<1, 2>>, <<2, 3>> >>
EdgesDup == << <<1, 2>>, <<1, 2>> >>

ValCsvs ==
  { NoCsv, UnreadableCsv,
    Csv({"source", "target"}, EdgesA, TRUE, TRUE),
    Csv({"source", "target", "score"}, EdgesDup, TRUE, TRUE),
    Csv({"source"}, <<>>, TRUE, TRUE),
    Csv({"source", "target"}, EdgesA, FALSE, TRUE) }

ValMetas ==
  { NoMeta, EmptyMetaFile, InvalidJson,
    MetaOf(TeamAb, "human", "a model"),
    MetaOf(TeamAb, "gpt", "a model"),
    MetaOf(TeamAb, "llm", " "),
    Meta([f \in {"team_name"} |-> [s |-> TeamAb]]) }

Envelopes == {Absent, File(<<>>), File(<<7>>)}

InitValidator ==
  /\ CryptoIdle /\ KgIdle /\ pubKeyFile = NoKeyFile
  /\ val = ValInit
  /\ \/ sub \in {NoSubmission, [NoSubmission EXCEPT !.kind = "file"]}
     \/ \E e \in Envelopes, c \in ValCsvs, m \in ValMetas :
          sub = [kind |-> "dir", envelope |-> e, predictions |-> c,
                 metadata |-> m]
  /\ leaderboard = NoLeaderboard /\ groundTruth = NoCsv
  /\ resultsFile = [exists |-> FALSE, results |-> NoResults]
  /\ sc = ScInit

NextValidator ==
  ValCheckPath \/ ValCheckPredictions \/ ValCheckMetadata \/ ValReturn

SpecValidator == InitValidator /\ [][NextValidator]_vars

(* --------------- score_submission.py: SubmissionScorer ----------------- *)
\* the strings pd.read_csv turns into NaN by default (here "NA")
NaTokens == {TeamNA}
NaN == <<-1>>

\* pd.read_csv on a cell of the team column
ReadCsvCell(cell) == IF cell \in NaTokens THEN NaN ELSE cell

\* str.lower() on ASCII text
Lower(text) ==
  [i \in 1..Len(text) |->
     IF text[i] >= 65 /\ text[i] <= 90 THEN text[i] + 32 ELSE text[i]]

\* leaderboard['team'].str.lower().tolist(): NaN stays NaN
existing_teams(lb) ==
  [i \in 1..Len(lb.team) |->
     IF ReadCsvCell(lb.team[i]) = NaN THEN NaN
     ELSE Lower(ReadCsvCell(lb.team[i]))]

\* the team column holds nothing but NaN: a float column, on which the
\* .str accessor raises
FloatColumn(lb) ==
  Len(lb.team) > 0 /\ \A i \in 1..Len(lb.team) : ReadCsvCell(lb.team[i]) = NaN

\* check_one_submission_limit: the exception it raises, if any
check_one_submission_limit(lb, team_name) ==
  IF ~lb.exists \/ lb.empty \/ "team" \notin lb.columns THEN "none"
  ELSE IF FloatColumn(lb) THEN "AttributeError"
  ELSE IF Lower(team_name) \in Range(existing_teams(lb)) THEN "Rejected"
  ELSE "none"

\* set(zip(df['source'], df['target']))
Edges(csv) == {csv.rows[i] : i \in 1..Len(csv.rows)}

\* compute_metrics: the counts the other metrics are made of
compute_metrics(predictions, ground_truth) ==
  [true_positives |-> Cardinality(Edges(predictions) \cap Edges(ground_truth)),
   false_positives |-> Cardinality(Edges(predictions) \ Edges(ground_truth)),
   false_negatives |-> Cardinality(Edges(ground_truth) \ Edges(predictions))]

\* an exception reaches __main__: the error is printed, sys.exit(1)
ScFail(e, step) ==
  sc' = [sc EXCEPT !.pc = "failed", !.err = e, !.log = Append(@, step),
                   !.exit = 1]

ScFrame ==
  UNCHANGED <<predFile, pubKeyFile, encFile, outFile, envKey, forged, enc, dec,
              encDir, outDir, urandomOut, sessions, KgVars,
              sub, val, leaderboard, groundTruth>>

\* score: metadata = json.load(f) if metadata.json exists, else {}
ScLoadMeta ==
  /\ sc.pc = "start"
  /\ IF sub.metadata.exists /\ sub.metadata.json # "ok"
     THEN ScFail("JSONDecodeError", "metadata")
     ELSE sc' = [sc EXCEPT !.pc = "check", !.log = Append(@, "metadata"),
                   !.metadata = IF sub.metadata.exists THEN sub.metadata.obj
                                ELSE <<>>]
  /\ UNCHANGED resultsFile /\ ScFrame

\* score: team_name = metadata.get('team_name', ''); the limit check
ScCheckLimit ==
  /\ sc.pc = "check"
  /\ LET team_name == IF "team_name" \in DOMAIN sc.metadata
                      THEN sc.metadata["team_name"].s ELSE <<>>
         r == IF team_name # <<>>
              THEN check_one_submission_limit(leaderboard, team_name)
              ELSE "none"
     IN  IF r # "none"
         THEN sc' = [sc EXCEPT !.pc = "failed", !.err = r, !.exit = 1,
                               !.team_name = team_name,
                               !.log = Append(@, "check")]
         ELSE sc' = [sc EXCEPT !.pc = "load", !.team_name = team_name,
                               !.log = IF team_name # <<>>
                                       THEN Append(@, "check") ELSE @]
  /\ UNCHANGED resultsFile /\ ScFrame

\* load_data
ScLoadData ==
  /\ sc.pc = "load"
  /\ IF ~sub.predictions.exists \/ ~groundTruth.exists
     THEN ScFail("FileNotFound", "load")
     ELSE IF ~sub.predictions.readable THEN ScFail("ParserError", "load")
     ELSE sc' = [sc EXCEPT !.pc = "metrics", !.log = Append(@, "load"),
                   !.predictions = sub.predictions,
                   !.ground_truth = groundTruth]
  /\ UNCHANGED resultsFile /\ ScFrame

\* compute_metrics and self.results = {...}; return
ScComputeMetrics ==
  /\ sc.pc = "metrics"
  /\ IF ~({"source", "target"} \subseteq sc.predictions.columns)
     THEN ScFail("KeyError", "metrics")
     ELSE LET metrics == compute_metrics(sc.predictions, sc.ground_truth)
          IN  sc' = [sc EXCEPT !.pc = "save", !.log = Append(@, "metrics"),
                       !.metrics = metrics,
                       !.results = [made |-> TRUE, metrics |-> metrics,
                                    metadata |-> sc.metadata]]
  /\ UNCHANGED resultsFile /\ ScFrame

\* __main__: json.dump(results, ...) to results.json; sys.exit(0)
ScSaveResults ==
  /\ sc.pc = "save"
  /\ resultsFile' = [exists |-> TRUE, results |-> sc.results]
  /\ sc' = [sc EXCEPT !.pc = "done", !.exit = 0, !.log = Append(@, "save")]
  /\ ScFrame

Leaderboards ==
  { NoLeaderboard,
    [exists |-> TRUE, empty |-> TRUE, columns |-> {}, team |-> <<>>],
    [exists |-> TRUE, empty |-> FALSE, columns |-> {"team", "f1_score"},
     team |-> <<>>],
    [exists |-> TRUE, empty |-> FALSE, columns |-> {"name", "f1_score"},
     team |-> <<>>],
    [exists |-> TRUE, empty |-> FALSE, columns |-> {"team", "f1_score"},
     team |-> <<TeamAb>>],
    [exists |-> TRUE, empty |-> FALSE, columns |-> {"team", "f1_score"},
     team |-> <<TeamCd, TeamAbUpper>>],
    [exists |-> TRUE, empty |-> FALSE, columns |-> {"team", "f1_score"},
     team |-> <<TeamNA, TeamCd>>],
    [exists |-> TRUE, empty |-> FALSE, columns |-> {"team", "f1_score"},
     team |-> <<TeamNA>>] }

ScMetas ==
  { NoMeta, InvalidJson,
    Meta([f \in {"method"} |-> [s |-> "human"]]),
    MetaOf(<<>>, "human", "a model"),
    MetaOf(TeamAb, "human", "a model"),
    MetaOf(TeamAbLower, "llm", "a model"),
    MetaOf(TeamCd, "hybrid", "a model"),
    MetaOf(TeamNA, "human", "a model") }

ScCsvs ==
  { NoCsv, Csv({"source", "target"}, EdgesA, TRUE, TRUE),
    Csv({"source"}, <<>>, TRUE, TRUE) }

InitScorer ==
  /\ CryptoIdle /\ KgIdle /\ pubKeyFile = NoKeyFile
  /\ val = ValInit
  /\ \E c \in ScCsvs, m \in ScMetas :
       sub = [kind |-> "dir", envelope |-> Absent, predictions |-> c,
              metadata |-> m]
  /\ leaderboard \in Leaderboards
  /\ groundTruth = Csv({"source", "target"}, EdgesA, TRUE, TRUE)
  /\ resultsFile = [exists |-> FALSE, results |-> NoResults]
  /\ sc = ScInit

\* the scorer is run once more on the same submission
ScRestart ==
  /\ sc.pc \in {"done", "failed"}
  /\ sc.calls < MaxScoreCalls
  /\ sc' = [ScInit EXCEPT !.calls = sc.calls + 1]
  /\ UNCHANGED resultsFile /\ ScFrame

NextScorer ==
  \/ ScLoadMeta \/ ScCheckLimit \/ ScLoadData \/ ScComputeMetrics
  \/ ScSaveResults \/ ScRestart

SpecScorer == InitScorer /\ [][NextScorer]_vars

(* ----------------------------- specification --------------------------- *)
\* the pipeline: the decryptor runs on what the encryptor left behind
DecStartAfterEnc == EncTerminated /\ DecCheckInput

Next == EncStep \/ DecStartAfterEnc \/ DecAfterStart

Spec == Init /\ [][Next]_vars

(* -------------- the two programs on the same path at once -------------- *)
\* the last f.write torn: all of the buffer but its last byte or last block
TornTails == {0, 1, BlockSize}

\* The with block writes through a buffered file object: what is in the
\* file before close() is a prefix of what was handed to f.write, cut where
\* the buffer was flushed (at a multiple of the buffer size, which the
\* program does not set; an envelope larger than the buffer is cut inside
\* its ciphertext).
EncFlush ==
  /\ enc.pc \in {"w2", "w3", "w4", "close"}
  /\ \E t \in TornTails :
       /\ Len(enc.buf) - t > Len(encFile.bytes)
       /\ encFile' = File(SubSeq(enc.buf, 1, Len(enc.buf) - t))
  /\ UNCHANGED <<enc, encDir, urandomOut, sessions>> /\ EncFrame

\* the process is killed inside the with block: the file keeps what was
\* flushed
EncKill ==
  /\ enc.pc \in {"w1", "w2", "w3", "w4", "close"}
  /\ enc' = [enc EXCEPT !.pc = "killed"]
  /\ EncQuiet /\ EncFrame

InitRace ==
  /\ predFile \in {File(<<>>), File(Ramp(BlockSize + 1, 0))}
  /\ pubKeyFile = KeyFile(Pem(KeyA))
  /\ envKey = EnvValue(Pem(KeyA))
  /\ encFile = Absent
  /\ forged = NoTriple
  /\ FreshOutput
  /\ EncIdleWorld
  /\ enc = EncInit
  /\ dec = DecInit
  /\ KgIdle /\ SubIdle

NextRace == EncStep \/ EncFlush \/ EncKill \/ DecCheckInput \/ DecAfterStart

\* a decryptor started at any moment of an encryptor run on the same path
SpecRace == InitRace /\ [][NextRace]_vars

(* ------------------- encryptor invocations in a row -------------------- *)
\* a new invocation of the encryptor, on the same or on another
\* predictions.csv, after the one before has ended
EncRestart ==
  /\ EncTerminated
  /\ Cardinality(urandomOut) < 2 * MaxRuns
  /\ enc' = EncInit
  /\ predFile' \in {File(<<>>), File(Ramp(BlockSize, 0))}
  /\ UNCHANGED <<pubKeyFile, outFile, envKey, forged, dec, outDir,
                 KgVars, SubVars>>
  /\ EncQuiet

InitRuns ==
  /\ predFile \in {File(<<>>), File(Ramp(BlockSize, 0))}
  /\ pubKeyFile \in {KeyFile(Pem(KeyA)), KeyFile(Pem(KeyE))}
  /\ envKey = EnvValue(Pem(KeyA))
  /\ encFile = Absent
  /\ forged = NoTriple
  /\ FreshOutput
  /\ EncIdleWorld
  /\ enc = EncInit
  /\ dec = DecInit
  /\ KgIdle /\ SubIdle

NextRuns == EncStep \/ EncRestart

SpecRuns == InitRuns /\ [][NextRuns]_vars

(* ------------------------------ vocabulary ----------------------------- *)
DecDid(step) == step \in Range(dec.log)
EncDid(step) == step \in Range(enc.log)
KgDid(step) == step \in Range(kg.log)
ScDid(step) == step \in Range(sc.log)

\* step a comes before step b in log (b did not happen without a before it)
Before(log, a, b) ==
  \A j \in 1..Len(log) : log[j] = b => \E i \in 1..(j - 1) : log[i] = a

\* the decryptor's framing checks let the bytes it read through
DecAccepted ==
  DecDid("parse") /\ ~(dec.pc = "failed" /\ dec.log[Len(dec.log)] = "parse")

\* the private key variable holds the counterpart of the public key file
Matching ==
  /\ pubKeyFile.exists /\ pubKeyFile.pem.armor
  /\ envKey.state = "value" /\ envKey.pem.armor
  /\ pubKeyFile.pem.key = envKey.pem.key

\* the length field of data declares more than data holds after it:
\* (len(data) - 4) < N + 16   (files here are shorter than 65536 bytes)
DeclaredTooLong(data) ==
  LET n == FromBytesBE(SubSeq(data, 1, LenFieldLen))
  IN  n.hi > 0 \/ Len(data) - LenFieldLen < n.lo + IvLen

\* nothing follows wrapped_key and iv: len(data) = 4 + N + 16
NothingAfterIv(data) ==
  LET n == FromBytesBE(SubSeq(data, 1, LenFieldLen))
  IN  n.hi = 0 /\ Len(data) = LenFieldLen + n.lo + IvLen

\* the decryptor has written nothing: what was at the output path before
\* the run is still there (no plaintext of the model equals StaleOutput)
OutputUntouched ==
  ~DecDid("write") /\ outFile \in {Absent, File(StaleOutput)}

(* -------------------------------- claims ------------------------------- *)
\* C1: round trip.  When the encryptor has written its envelope and the
\* decryptor, holding the matching private key and an output place it can
\* write, has ended, the decryptor has succeeded and its output file holds
\* exactly the bytes of predictions.csv.
C1_RoundTrip ==
  (enc.pc = "done" /\ Matching /\ outDir # "unwritable" /\ DecTerminated)
    => (dec.pc = "done" /\ outFile = File(predFile.bytes))

C1_Witness ==
  /\ enc.pc = "done" /\ Matching /\ dec.pc = "done"
  /\ Len(predFile.bytes) = 2 * BlockSize + 1
  /\ outFile.bytes = predFile.bytes

\* C2: codec round trip.  Parsing what the encryptor's layout gives for
\* (wrapped_key, iv, ciphertext), len(iv) = 16 and ciphertext non-empty, is
\* accepted and yields these three fields (for a third party's triple and
\* for the encryptor's own); and whatever bytes the framing checks accept,
\* laying the parsed fields out again gives the same bytes.
C2_CodecRoundTrip ==
  /\ (forged.used /\ Len(forged.iv) = IvLen /\ Len(forged.ciphertext) > 0
        /\ DecDid("parse"))
       => /\ DecAccepted
          /\ WideEq(dec.fields.key_len, Len(forged.enc_key))
          /\ dec.fields.enc_key = forged.enc_key
          /\ dec.fields.iv = forged.iv
          /\ dec.fields.ciphertext = forged.ciphertext
  /\ (enc.pc = "done" /\ DecDid("parse"))
       => /\ DecAccepted
          /\ dec.fields.enc_key = enc.enc_key
          /\ dec.fields.iv = enc.iv
          /\ dec.fields.ciphertext = enc.ciphertext
  /\ DecAccepted
       => Serialize(dec.fields.enc_key, dec.fields.iv, dec.fields.ciphertext)
            = dec.data

C2_Witness ==
  /\ forged.used /\ Len(forged.enc_key) = 256 /\ DecAccepted
  /\ dec.fields.ciphertext = forged.ciphertext

\* C3: cross-key rejection.  When the envelope was produced with a public
\* key and the decryptor has loaded a private key that is not its
\* counterpart, the run never writes an output file, and when it has ended
\* it has failed with KeyUnwrapError or PaddingError.
C3_CrossKeyRejection ==
  (enc.pc = "done" /\ DecDid("getenv")
     /\ dec.private_key \notin {NoKey, enc.public_key})
    => /\ OutputUntouched
       /\ dec.pc # "done"
       /\ DecTerminated => dec.err \in {"KeyUnwrapError", "PaddingError"}

C3_Witness ==
  /\ enc.pc = "done" /\ enc.public_key = KeyA /\ dec.private_key = KeyB
  /\ dec.pc = "failed" /\ dec.err = "KeyUnwrapError"

\* C4: short input.  Once the decryptor has read 19 bytes or fewer from the
\* envelope path, it goes no further than the length check: it has not read
\* the length field, not unwrapped, not decrypted, written nothing, and when
\* it has ended it has failed with MalformedEnvelope at the length check.
C4_ShortInputRejected ==
  (DecDid("read") /\ Len(dec.data) <= 19)
    => /\ ~DecDid("parse") /\ ~DecDid("unwrap") /\ ~DecDid("aes")
       /\ OutputUntouched
       /\ dec.pc \in {"checklen", "failed"}
       /\ dec.pc = "failed"
            => (dec.err = "MalformedEnvelope"
                  /\ dec.log[Len(dec.log)] = "checklen")

C4_Witness ==
  /\ Len(dec.data) = 19 /\ dec.pc = "failed" /\ dec.err = "MalformedEnvelope"
  /\ encFile.bytes = dec.data

\* C5: declared length.  Once the decryptor has read at least 20 bytes whose
\* length field N has (len - 4) < N + 16, it never attempts the key unwrap,
\* writes nothing, and when it has ended it has failed with MalformedEnvelope.
C5_DeclaredLengthRejected ==
  (DecDid("read") /\ Len(dec.data) >= 20 /\ DeclaredTooLong(dec.data))
    => /\ ~DecDid("unwrap") /\ ~DecDid("aes")
       /\ OutputUntouched
       /\ dec.pc \in {"checklen", "parse", "failed"}
       /\ dec.pc = "failed" => dec.err = "MalformedEnvelope"

C5_Witness ==
  /\ Len(dec.data) >= 20 /\ SubSeq(dec.data, 1, 4) = <<255, 255, 255, 255>>
  /\ dec.pc = "failed" /\ dec.err = "MalformedEnvelope" /\ DecDid("parse")

\* C6: empty ciphertext.  Once the decryptor has read an envelope of exactly
\* 4 + N + 16 bytes (N its declared wrapped-key length), it never attempts
\* the key unwrap, writes nothing, and when it has ended it has failed with
\* MalformedEnvelope.
C6_EmptyCiphertextRejected ==
  (DecDid("read") /\ Len(dec.data) >= 20 /\ NothingAfterIv(dec.data))
    => /\ ~DecDid("unwrap") /\ ~DecDid("aes")
       /\ OutputUntouched
       /\ dec.pc \in {"checklen", "parse", "failed"}
       /\ dec.pc = "failed" => dec.err = "MalformedEnvelope"

C6_Witness ==
  /\ Len(dec.data) = 4 + 256 + 16 /\ NothingAfterIv(dec.data)
  /\ dec.pc = "failed" /\ dec.err = "MalformedEnvelope"
  /\ Len(dec.fields.iv) = IvLen /\ Len(dec.fields.ciphertext) = 0

\* C7: envelope size.  With a 2048-bit key and a plaintext of n bytes the
\* finished envelope has 4 + 256 + 16 + 16 * (n div 16 + 1) bytes: 292 for
\* the empty plaintext, a whole extra block for an aligned one; and the
\* decryptor's output for the 292-byte envelope is the empty byte string.
C7_EnvelopeSize ==
  (enc.pc = "done" /\ enc.public_key.bits = 2048)
    => LET n == Len(predFile.bytes)
       IN  /\ Len(encFile.bytes) = 4 + 256 + 16 + 16 * ((n \div 16) + 1)
           /\ n = 0 => Len(encFile.bytes) = 292
           /\ n % 16 = 0 => Len(enc.ciphertext) = n + 16
           /\ (n = 0 /\ Matching /\ outDir # "unwritable" /\ DecTerminated)
                => (dec.pc = "done" /\ outFile = File(<<>>))

C7_Witness ==
  /\ enc.pc = "done" /\ enc.public_key.bits = 2048
  /\ Len(predFile.bytes) = 0 /\ Len(encFile.bytes) = 292
  /\ dec.pc = "done" /\ outFile = File(<<>>)

\* key material the key file format rules out: malformed armor, a key that
\* is not RSA, an RSA modulus that is not 2048 bits
Unacceptable(pem) ==
  ~pem.armor \/ pem.key.kind # "rsa" \/ pem.key.bits # GeneratedKeyBits

\* the complete envelope of the encryptor run
FullEnvelope == Serialize(enc.enc_key, enc.iv, enc.ciphertext)

\* the decryptor's framing checks reject these bytes
FramingRejects(data) == TooShort(data) \/ FormatInvalid(ParseEnvelope(data))

\* C8: secret provisioning order.  With the private-key variable unset or
\* empty the decryptor has not checked the envelope path for existence, has
\* not read the envelope, and when it has ended it has failed with the
\* configuration error, whatever is at the envelope path.
C8_KeyErrorBeforeEnvelope ==
  envKey.state \in {"unset", "empty"}
    => /\ ~DecDid("exists") /\ ~DecDid("read")
       /\ DecTerminated => dec.err = "ConfigError"

\* C9: key loading validation.  With unacceptable key material in the
\* public key file the encryptor never wraps a key nor finishes, and when
\* loading was reached the run has failed with KeyLoadError; likewise the
\* decryptor never unwraps nor decrypts with unacceptable key material in
\* its variable, and fails with KeyLoadError when it has loaded it.
C9_KeyLoadValidation ==
  /\ (pubKeyFile.exists /\ Unacceptable(pubKeyFile.pem))
       => /\ ~EncDid("wrap") /\ enc.pc \notin {"wrap", "done"}
          /\ (enc.pc = "failed" /\ predFile.exists) => enc.err = "KeyLoadError"
  /\ (envKey.state = "value" /\ Unacceptable(envKey.pem))
       => /\ ~DecDid("unwrap") /\ ~DecDid("aes") /\ dec.pc # "read"
          /\ (dec.pc = "failed" /\ DecDid("getenv")) => dec.err = "KeyLoadError"

\* C10: no partial envelope is exposed.  From the moment the encryptor has
\* opened the output path, the bytes at the path are the complete envelope
\* or bytes the decryptor's framing checks reject; and bytes that a
\* decryptor got past its framing checks are the complete envelope.
C10_NoPartialEnvelope ==
  enc.pc \in {"w1", "w2", "w3", "w4", "close", "done", "killed"}
    => /\ encFile.bytes = FullEnvelope \/ FramingRejects(encFile.bytes)
       /\ DecAccepted => dec.data = FullEnvelope

\* the step at which each error of the decryptor is raised
DecErrorSteps ==
  { <<"FileNotFound", "exists">>, <<"ConfigError", "getenv">>,
    <<"KeyLoadError", "getenv">>, <<"MalformedEnvelope", "checklen">>,
    <<"MalformedEnvelope", "parse">>, <<"KeyUnwrapError", "unwrap">>,
    <<"DecryptionError", "aes">>, <<"PaddingError", "aes">>,
    <<"IOError", "write">> }

\* no step of the decryptor ran twice
DecNoStepTwice ==
  \A i, j \in 1..Len(dec.log) : dec.log[i] = dec.log[j] => i = j

\* C11: terminal failures.  In the decryptor an error is raised at the last
\* step that ran, the run has then ended with exit status 1, no step ran
\* twice, and exit status 0 occurs only with the plaintext written to the
\* output path; once the run has failed, the decryptor takes no further
\* step and the output path does not change.
C11_TerminalFailures ==
  /\ [](/\ dec.err # "none"
             => /\ dec.pc = "failed" /\ dec.exit = 1
                /\ <<dec.err, dec.log[Len(dec.log)]>> \in DecErrorSteps
        /\ dec.pc = "failed" => (dec.err # "none" /\ dec.exit # 0)
        /\ dec.exit = 0
             => (dec.pc = "done" /\ DecDid("write")
                   /\ outFile = File(dec.plaintext))
        /\ dec.exit = -1 <=> ~DecTerminated
        /\ DecNoStepTwice)
  /\ [][dec.pc = "failed"
          => (dec' = dec /\ outFile' = outFile /\ outDir' = outDir)]_vars

C11_Witness ==
  /\ dec.pc = "failed" /\ dec.err = "IOError" /\ dec.exit = 1
  /\ DecDid("aes") /\ outFile = File(StaleOutput)

\* C16: envelope invariants.  What the encryptor hands to the output file,
\* read back field by field, has a length field equal to len(wrapped_key),
\* the 16-byte IV of the run, and a ciphertext of at least 16 bytes that is
\* a whole number of 16-byte blocks, whatever the plaintext length.
C16_EnvelopeInvariants ==
  enc.pc \in {"close", "done"}
    => LET f == ParseEnvelope(IF enc.pc = "done" THEN encFile.bytes ELSE enc.buf)
       IN  /\ WideEq(f.key_len, Len(enc.enc_key))
           /\ f.enc_key = enc.enc_key
           /\ Len(enc.iv) = 16 /\ f.iv = enc.iv
           /\ f.ciphertext = enc.ciphertext
           /\ Len(f.ciphertext) >= 16
           /\ Len(f.ciphertext) % 16 = 0

C16_Witness ==
  /\ enc.pc = "done" /\ Len(predFile.bytes) = BlockSize
  /\ Len(enc.ciphertext) = 2 * BlockSize
  /\ Len(encFile.bytes) = LenFieldLen + 512 + IvLen + 2 * BlockSize

\* the padded bytes the decryptor's CBC decryption gives
DecPadded == CbcDecrypt(dec.aes_key, dec.fields.iv, dec.fields.ciphertext)

\* the final byte p of b is in 1..16 and the last p bytes of b all equal p
PaddingWellFormed(b) ==
  LET p == b[Len(b)]
  IN  /\ 1 <= p /\ p <= 16
      /\ \A i \in 1..Len(b) : i > Len(b) - p => b[i] = p

\* C17: padding validation.  Once the decryptor has run the symmetric
\* decryption on whole blocks with a usable key: if the final byte p of the
\* padded bytes is in 1..16 and the last p bytes all equal p, the step
\* succeeded and its plaintext is the padded bytes without the last p; in
\* every other case the run has failed with PaddingError and the output
\* path is untouched.
C17_PaddingValidation ==
  (DecDid("aes") /\ AesKeyOk(dec.aes_key)
     /\ Len(dec.fields.ciphertext) % BlockSize = 0)
    => IF PaddingWellFormed(DecPadded)
       THEN /\ dec.err \in {"none", "IOError"}
            /\ dec.plaintext
                 = SubSeq(DecPadded, 1,
                          Len(DecPadded) - DecPadded[Len(DecPadded)])
       ELSE /\ dec.pc = "failed" /\ dec.err = "PaddingError"
            /\ OutputUntouched

C17_Witness ==
  /\ DecDid("aes") /\ dec.pc = "failed" /\ dec.err = "PaddingError"
  /\ DecPadded[Len(DecPadded)] = 2 /\ DecPadded[Len(DecPadded) - 1] = 3
  /\ outFile = File(StaleOutput)

\* the steps of the decryptor that come before its output
DecValidationSteps ==
  {"exists", "getenv", "read", "checklen", "parse", "unwrap", "aes"}

\* C19: all-or-nothing output.  A step changes the decryptor's output path
\* or its directory only when the existence check, the key load, the
\* framing checks, the key unwrap and the decryption with padding removal
\* have all run without error, and then the path receives the plaintext;
\* a run that failed at one of these steps has left the file that was at
\* the output path as it was.
C19_OutputAllOrNothing ==
  /\ [][(outFile' # outFile \/ outDir' # outDir)
          => /\ dec.pc = "write" /\ dec.err = "none"
             /\ \A step \in DecValidationSteps : DecDid(step)
             /\ PaddingWellFormed(DecPadded)
             /\ outFile' = File(dec.plaintext)]_vars
  /\ []((dec.pc = "failed" /\ dec.err # "IOError") => OutputUntouched)

C19_Witness ==
  /\ dec.pc = "failed" /\ dec.err = "KeyUnwrapError"
  /\ DecDid("parse") /\ outFile = File(StaleOutput)

\* needle occurs in hay as a run of consecutive bytes
Contains(hay, needle) ==
  \E i \in 0..(Len(hay) - Len(needle)) :
    SubSeq(hay, i + 1, i + Len(needle)) = needle

\* the byte strings the encryptor has put where they stay: the output file,
\* what is on its way to it, and what it printed
EncPersisted ==
  {encFile.bytes, enc.buf} \cup {enc.stdout[i].bytes : i \in 1..Len(enc.stdout)}

\* C12: session key freshness and confinement.  Over any sequence of
\* encryptor invocations every encryption used a 32-byte key and a 16-byte
\* IV drawn in its own invocation, no key and no (key, IV) pair served two
\* encryptions, so that each key encrypted one plaintext, and no session
\* key occurs in the clear in the output file, in the bytes on their way to
\* it, or in what was printed; the encryptor leaves the plaintext file and
\* the decryptor's output alone.
C12_SessionKeyFreshness ==
  /\ \A i, j \in 1..Len(sessions) :
       /\ Len(sessions[i].key) = 32 /\ Len(sessions[i].iv) = 16
       /\ (sessions[i].key = sessions[j].key \/ sessions[i].iv = sessions[j].iv
             \/ <<sessions[i].key, sessions[i].iv>>
                  = <<sessions[j].key, sessions[j].iv>>)
            => i = j
  /\ EncDid("aes")
       => (sessions[Len(sessions)].key = enc.aes_key
             /\ sessions[Len(sessions)].iv = enc.iv
             /\ sessions[Len(sessions)].plaintext = enc.plaintext)
  /\ \A i \in 1..Len(sessions), b \in EncPersisted :
       ~Contains(b, sessions[i].key)
  /\ FreshOutput

C12_Witness ==
  /\ Len(sessions) = 2 /\ enc.pc = "done"
  /\ sessions[1].plaintext = sessions[2].plaintext
  /\ sessions[1].key # sessions[2].key
  /\ Len(encFile.bytes) = LenFieldLen + 256 + IvLen + 2 * BlockSize

\* the private key of the run's pair is in this PEM text
HoldsPrivate(pem) == "d" \in DOMAIN pem /\ pem.d = PrivateExponent(kg.key)

\* C13: private key confinement.  Of all the key generator leaves behind,
\* only the private key file holds the private key of the generated pair:
\* what is printed is the same fixed lines whatever pair was generated (so
\* two runs with different private keys print the same), and the public
\* key file holds nothing, an older public key, or the public half.
C13_PrivateKeyConfinement ==
  /\ kg.stdout \in {<<>>, KgMessages}
  /\ kg.pc = "done" => kg.stdout = KgMessages
  /\ \A i \in 1..Len(kg.stdout) : ~HoldsPrivate(kg.stdout[i].pem)
  /\ ~HoldsPrivate(pubKeyFile.pem)
  /\ pubKeyFile \in {NoKeyFile, KeyFile(Pem(OldKey)), EmptyKeyFile,
                     KeyFile(Pem(kg.key))}
  /\ KgDid("write public")
       => (pubKeyFile = KeyFile(Pem(kg.key)) \/ kg.pc = "failed")
  /\ kg.pc = "done" => privKeyFile = KeyFile(PrivatePem(kg.key))

C13_Witness ==
  /\ kg.pc = "done" /\ kg.key = KeyD /\ kg.stdout = KgMessages
  /\ HoldsPrivate(privKeyFile.pem)
  /\ pubKeyFile = KeyFile(Pem(KeyD))

\* C18: parent directory before write.  Whenever a program has opened or
\* written an output file, a create-if-absent of that file's directory came
\* before in the same run (encryptor, decryptor, key generator), and no
\* write has failed while the directory was missing.
C18_ParentDirBeforeWrite ==
  /\ Before(enc.log, "mkdir", "open")
  /\ Before(dec.log, "mkdir", "write")
  /\ Before(kg.log, "mkdir private", "open private")
  /\ Before(kg.log, "mkdir public", "open public")
  /\ ~(enc.err = "IOError" /\ encDir = "absent")

\* the key generator failed at opening or writing the public key file
KgPublicWriteFailed ==
  /\ kg.pc = "failed"
  /\ kg.log[Len(kg.log)] \in {"open public", "write public"}

\* C20: key generation write order.  The private key file is written before
\* the public key directory is made and the public key file written; when
\* the public key write has failed, the run has failed with IOError, the
\* private key file holds the new pair's private key, and the public key
\* file is absent or holds the older key.
C20_KeygenWriteOrder ==
  /\ Before(kg.log, "write private", "mkdir public")
  /\ Before(kg.log, "write private", "open public")
  /\ KgDid("mkdir public") => privKeyFile = KeyFile(PrivatePem(kg.key))
  /\ KgPublicWriteFailed
       => /\ kg.err = "IOError"
          /\ privKeyFile = KeyFile(PrivatePem(kg.key))
          /\ pubKeyFile \in {NoKeyFile, KeyFile(Pem(OldKey))}

\* C14: validator scope.  When validate has returned, its verdict is that
\* envelope file and metadata file are both present and not empty, and it
\* has not read predictions.csv.
C14_ValidatorScope ==
  val.returned
    => /\ val.is_valid
            <=> (sub.kind = "dir"
                   /\ sub.envelope.exists /\ Len(sub.envelope.bytes) > 0
                   /\ sub.metadata.exists /\ sub.metadata.size > 0)
       /\ "predictions.csv" \notin val.reads

\* the team_name of the submission's metadata.json
SubmittedTeam ==
  IF sub.metadata.json = "ok" /\ "team_name" \in DOMAIN sub.metadata.obj
  THEN sub.metadata.obj["team_name"].s ELSE <<>>

\* the submitting team's name is, up to case, in the leaderboard's team
\* column
TeamOnLeaderboard ==
  /\ SubmittedTeam # <<>>
  /\ leaderboard.exists /\ "team" \in leaderboard.columns
  /\ \E i \in 1..Len(leaderboard.team) :
       Lower(leaderboard.team[i]) = Lower(SubmittedTeam)

\* C15: one submission per team.  When the submitting team is on the
\* leaderboard and score() has got to its limit check, the run has failed
\* there with the rejection error: predictions were not loaded, no metric
\* computed, no result made or saved.
C15_OneSubmissionPerTeam ==
  (TeamOnLeaderboard /\ ScDid("check"))
    => /\ sc.pc = "failed" /\ sc.err = "Rejected"
       /\ ~ScDid("load") /\ ~ScDid("metrics")
       /\ ~sc.results.made /\ ~resultsFile.exists

\* C21: scoring does not record the team.  No step of a scoring run changes
\* the leaderboard file; in every call of a row of score() calls, the step
\* at the one-submission check goes on to load the predictions when the
\* submitting team is not on the leaderboard, and does not call the check
\* at all when the metadata is missing or gives no team name.
C21_ScoringDoesNotRecord ==
  [][/\ leaderboard' = leaderboard
     /\ (sc.pc = "check" /\ sc' # sc)
          => /\ SubmittedTeam = <<>>
                  => (sc'.pc = "load" /\ sc'.log = sc.log)
             /\ (SubmittedTeam # <<>> /\ ~TeamOnLeaderboard)
                  => (sc'.pc = "load" /\ sc'.err = "none")]_vars

====
